---- MODULE Spec2Model ----
(***************************************************************************)
(* A model of lldb's CompileUnit (lldb/source/Symbol/CompileUnit.cpp):     *)
(* the lazily filled debug-info cache, the function registry, and          *)
(* ResolveSymbolContext.  The three parts are explored by three            *)
(* specifications over the same variables: SpecCache, SpecRegistry and     *)
(* SpecResolve.                                                            *)
(***************************************************************************)
EXTENDS Integers, Sequences, FiniteSets, TLC

(***************************************************************************)
(* Bounds of the exploration.                                              *)
(***************************************************************************)
MaxCalls == 2          \* backend invocations counted per backend function
MaxGets == 2           \* GetLineTable calls counted since the last SetLineTable
MaxLine == 3           \* largest source line of a line-table row or a query
MaxColumn == 1         \* largest column of a line-table row or a query
MaxEntries == 2        \* rows of a line table
MaxFuncId == 3         \* function ids are 1..MaxFuncId
MaxAdds == 3           \* AddFunction calls
MaxBlocks == 2         \* blocks below the top-level block of a function

(***************************************************************************)
(* Values.                                                                 *)
(***************************************************************************)
eLanguageTypeUnknown == "eLanguageTypeUnknown"
LanguageTypes == {eLanguageTypeUnknown, "eLanguageTypeC99"}

eLazyBoolCalculate == "eLazyBoolCalculate"
eLazyBoolYes == "eLazyBoolYes"
eLazyBoolNo == "eLazyBoolNo"
LazyBools == {eLazyBoolCalculate, eLazyBoolYes, eLazyBoolNo}

flagsParsedLanguage == "flagsParsedLanguage"
flagsParsedLineTable == "flagsParsedLineTable"
flagsParsedDebugMacros == "flagsParsedDebugMacros"
flagsParsedImportedModules == "flagsParsedImportedModules"
flagsParsedSupportFiles == "flagsParsedSupportFiles"

\* LLDB_INVALID_LINE_NUMBER, LLDB_INVALID_COLUMN_NUMBER and UINT32_MAX.  A
\* line-table index is 0-based as in the code; NotFound stands for UINT32_MAX.
InvalidLine == 0
InvalidColumn == 0
NotFound == -1

\* FileSpec: a directory (possibly empty) and a file name.
FileSpecOf(d, n) == [dir |-> d, name |-> n]
PrimaryFile == FileSpecOf("/src", "a.c")
HeaderFile == FileSpecOf("/inc", "b.h")
LinkFile == FileSpecOf("/lnk", "a.c")
BaseOnlyFile == FileSpecOf("", "a.c")
OtherDirFile == FileSpecOf("/oth", "a.c")

\* The support-file lists a unit is constructed with or the backend parses.
SupportFileLists ==
  { <<>>, <<PrimaryFile>>, <<PrimaryFile, HeaderFile>>, <<PrimaryFile, LinkFile>> }

\* A row of a line table; the row at 0-based index i has the address range
\* [kind |-> "row", id |-> i].
Rows == [file_idx : 0..1, line : 1..MaxLine, column : 0..MaxColumn]

RECURSIVE SeqsUpTo(_, _)
SeqsUpTo(S, n) ==
  IF n = 0 THEN { <<>> }
  ELSE LET shorter == SeqsUpTo(S, n - 1)
       IN shorter \cup { Append(s, x) : s \in { t \in shorter : Len(t) = n - 1 }, x \in S }

\* std::unique_ptr<LineTable>: nullptr, or a table that owns its rows.
NullTable == [present |-> FALSE, entries |-> <<>>]
TableOf(rows) == [present |-> TRUE, entries |-> rows]
Tables == { TableOf(rows) : rows \in SeqsUpTo(Rows, MaxEntries) }
\* The tables the setter and the backend hand over in the cache exploration.
CacheTables ==
  { t \in Tables : /\ Len(t.entries) <= 1
                   /\ \A i \in 1..Len(t.entries) :
                        t.entries[i].file_idx = 0 /\ t.entries[i].column = 0 }

BackendFns ==
  { "ParseLanguage", "ParseLineTable", "ParseDebugMacros", "ParseImportedModules",
    "ParseSupportFiles", "ParseIsOptimized", "ParseVariablesForContext",
    "ParseFunctions", "SetLoadDebugInfoEnabled" }

VARIABLES
  hasSymFile,          \* GetModule()->GetSymbolFile() is not null
  m_language, m_flags, m_line_table_up, m_debug_macros_sp, m_imported_modules,
  m_support_files, m_is_optimized, m_variables,
  calls,               \* history: invocations of each backend function
  setter_used,         \* history: SetLineTable or SetDebugMacros was called
  lt_phase,            \* history: "reset" after SetLineTable(nullptr) on a requested field
  lt_gets, lt_parses   \* history: GetLineTable / ParseLineTable calls since the last
                       \* SetLineTable (since construction when there was none)

VARIABLES
  m_functions_by_uid,  \* the map: a function from the registered ids to Function objects
  reg_log,             \* history: the AddFunction calls, in order
  lookup,              \* the last FindFunctionByUID call and its result
  fe,                  \* the last ForeachFunction call: the visitor and what it visited
  ff                   \* the last FindFunction call: the predicate and its result

VARIABLES
  gv,                  \* the last GetVariableList call and what it did
  opt,                 \* the last GetIsOptimized call and what it did
  eb,                  \* the last examine_block call on its own and what it did
  wl                   \* the while loop of the forward scan, taken iteration by iteration

VARIABLES
  func,                \* the function owning the unit's code: its block tree
  rs                   \* the last ResolveSymbolContext call: its inputs and what it did

cacheVars ==
  << hasSymFile, m_language, m_flags, m_line_table_up, m_debug_macros_sp,
     m_imported_modules, m_support_files, m_is_optimized, m_variables, calls,
     setter_used, lt_phase, lt_gets, lt_parses >>

registryVars == << m_functions_by_uid, reg_log, lookup, fe, ff >>

resolveVars == << func, rs >>

variableVars == << gv, opt, eb, wl >>

vars == << cacheVars, registryVars, resolveVars, variableVars >>

\* What the accessors and setters of the cache leave alone.
nonCacheVars == << registryVars, resolveVars, variableVars >>

Invoke(fn) == [calls EXCEPT ![fn] = @ + 1]

(***************************************************************************)
(* Construction.                                                           *)
(***************************************************************************)
\* m_variables: no list, or one of two VariableList objects.
NullVariableList == "null"
VariableLists == {"variables1", "variables2"}
VariablesIdle ==
  /\ gv = [called |-> FALSE]
  /\ opt = [called |-> FALSE]
  /\ eb = [called |-> FALSE]
  /\ wl = [phase |-> "idle"]

Construct(language, is_optimized, support_files) ==
  /\ m_language = language
  /\ m_flags = IF language # eLanguageTypeUnknown THEN {flagsParsedLanguage} ELSE {}
  /\ m_support_files = support_files
  /\ m_is_optimized = is_optimized
  /\ m_line_table_up = NullTable
  /\ m_debug_macros_sp = FALSE
  /\ m_imported_modules = <<>>
  /\ m_variables = NullVariableList

\* A Function object: its id, and a tag telling apart objects of the same id.
FuncIds == 1..MaxFuncId
Functions == [id : FuncIds, tag : 1..2]
NullFunction == [id |-> 0, tag |-> 0]
EmptyMap == [id \in {} |-> NullFunction]

LookupIdle == [called |-> FALSE, uid |-> 0, result |-> NullFunction]
ForeachIdle == [called |-> FALSE, stop |-> {}, visited |-> <<>>]
FindIdle == [called |-> FALSE, match |-> {}, parsed |-> <<>>, order |-> <<>>,
             evaluated |-> <<>>, result |-> NullFunction]

\* Address ranges: of a line-table row, of a block, of a row of another
\* unit's table, or none.
NoRange == [kind |-> "none", id |-> 0]
RowRange(idx) == [kind |-> "row", id |-> idx]
BlockRange(block) == [kind |-> "block", id |-> block]
ForeignRange == [kind |-> "foreign", id |-> 0]

\* LineEntry; a default-constructed one is invalid.
EmptyFile == FileSpecOf("", "")
InvalidLineEntry ==
  [file |-> EmptyFile, line |-> InvalidLine, column |-> InvalidColumn, range |-> NoRange]
IsValid(line_entry) == line_entry.range # NoRange /\ line_entry.line # InvalidLine

\* LineTable::ConvertEntryAtIndexToLineEntry: the row's file is looked up in
\* the unit's support files.
ConvertEntryAtIndexToLineEntry(files, table, idx) ==
  LET row == table.entries[idx + 1]
  IN [ file |-> IF row.file_idx < Len(files) THEN files[row.file_idx + 1] ELSE EmptyFile,
       line |-> row.line, column |-> row.column, range |-> RowRange(idx) ]

\* SourceLocationSpec
SourceLocationSpec(file, line, column, check_inlines, exact) ==
  [file |-> file, line |-> line, column |-> column, check_inlines |-> check_inlines,
   exact |-> exact]

(***************************************************************************)
(* Symbol contexts, blocks and the record of a ResolveSymbolContext call.  *)
(***************************************************************************)
NoBlock == -1
SymbolContext(module, comp_unit, function, block, line_entry, symbol) ==
  [ module |-> module, comp_unit |-> comp_unit, function |-> function, block |-> block,
    line_entry |-> line_entry, symbol |-> symbol ]
\* A default-constructed SymbolContext.
EmptyContext == SymbolContext(FALSE, "none", "none", NoBlock, InvalidLineEntry, FALSE)
\* SymbolContext sc(GetModule()); sc.comp_unit = this;
UnitContext == SymbolContext(TRUE, "this", "none", NoBlock, InvalidLineEntry, FALSE)
\* A context the caller's list may hold before the call.
PriorContext ==
  SymbolContext(TRUE, "other", "g", NoBlock,
                [file |-> HeaderFile, line |-> 1, column |-> 0, range |-> ForeignRange], FALSE)

\* Declaration: the call site of an inlined block.
Declaration(file, line, column) == [file |-> file, line |-> line, column |-> column]
NoDeclaration == Declaration(EmptyFile, 0, 0)
CallSites == { Declaration(PrimaryFile, 1, column) : column \in 0..MaxColumn }

\* A block below the function's top-level block (block 0): its parent, whether
\* it is an inlined function and from where, and whether it has address ranges.
Blocks(n) ==
  { b \in [parent : 0..(n - 1), inlined : BOOLEAN, call_site : CallSites \cup {NoDeclaration},
           has_range : BOOLEAN] : b.inlined <=> b.call_site # NoDeclaration }
NoFunction == [exists |-> FALSE, has_range |-> FALSE, blocks |-> <<>>]
\* Functions of one or more blocks, a block's parent preceding it.
RECURSIVE BlockLists(_)
BlockLists(n) ==
  IF n = 0 THEN { <<>> }
  ELSE LET shorter == BlockLists(n - 1)
       IN shorter \cup { Append(bs, b) : bs \in { x \in shorter : Len(x) = n - 1 },
                                         b \in Blocks(n) }
\* Functions of one more block, every block inlined at the same call site.
NestedBlocks(n) ==
  { b \in Blocks(n) : /\ b.call_site = Declaration(PrimaryFile, 1, MaxColumn)
                      /\ b.has_range }
RECURSIVE NestedBlockLists(_)
NestedBlockLists(n) ==
  IF n = 0 THEN { <<>> }
  ELSE { Append(bs, b) : bs \in NestedBlockLists(n - 1), b \in NestedBlocks(n) }
FunctionsWithBlocks ==
  { [exists |-> TRUE, has_range |-> r, blocks |-> bs] :
      r \in BOOLEAN, bs \in BlockLists(MaxBlocks) }
    \cup { [exists |-> TRUE, has_range |-> TRUE, blocks |-> bs] :
             bs \in NestedBlockLists(MaxBlocks + 1) }

ResolveIdle ==
  /\ VariablesIdle
  /\ func = NoFunction
  /\ rs = [called |-> FALSE]

RegistryEmpty ==
  /\ m_functions_by_uid = EmptyMap
  /\ reg_log = <<>>
  /\ lookup = LookupIdle
  /\ fe = ForeachIdle
  /\ ff = FindIdle

InitCache ==
  /\ RegistryEmpty
  /\ ResolveIdle
  /\ hasSymFile \in BOOLEAN
  /\ \E language \in LanguageTypes, is_optimized \in LazyBools,
        support_files \in SupportFileLists :
       Construct(language, is_optimized, support_files)
  /\ calls = [fn \in BackendFns |-> 0]
  /\ setter_used = FALSE
  /\ lt_phase = "none"
  /\ lt_gets = 0
  /\ lt_parses = 0

(***************************************************************************)
(* The lazily resolved fields (the accessors of the debug-info cache).     *)
(* The backend's answer is an input of each accessor: the value the        *)
(* backend returns or hands to the setter, or the empty value when it has  *)
(* nothing.                                                                *)
(***************************************************************************)
\* m_flags.Set(flag), done before the backend is asked.
MarkRequested_Forgotten(flags, flag) == flags

MarkRequested(flags, flag) == flags \cup {flag}

\* The flag update of SetLineTable and SetDebugMacros.
SetterFlags_AlwaysCleared(flags, flag, is_null) == flags \ {flag}

SetterFlags_NeverCleared(flags, flag, is_null) == flags \cup {flag}

SetterFlags(flags, flag, is_null) ==
  IF is_null THEN flags \ {flag} ELSE flags \cup {flag}

\* GetLineTable on a unit with flags `flags` and table `table`, the backend
\* calling SetLineTable(answer) unless answer is NullTable.
GetLineTableResult(flags, table, answer) ==
  IF table = NullTable /\ flagsParsedLineTable \notin flags
  THEN LET requested == MarkRequested(flags, flagsParsedLineTable)
       IN IF hasSymFile
          THEN [ flags |-> IF answer = NullTable THEN requested
                           ELSE SetterFlags(requested, flagsParsedLineTable, FALSE),
                 table |-> IF answer = NullTable THEN table ELSE answer,
                 invoked |-> 1 ]
          ELSE [ flags |-> requested, table |-> table, invoked |-> 0 ]
  ELSE [ flags |-> flags, table |-> table, invoked |-> 0 ]

\* GetSupportFiles, the backend filling the list with `answer`.
GetSupportFilesResult(flags, files, answer) ==
  IF Len(files) = 0 /\ flagsParsedSupportFiles \notin flags
  THEN LET requested == MarkRequested(flags, flagsParsedSupportFiles)
       IN IF hasSymFile
          THEN [ flags |-> requested, files |-> answer, invoked |-> 1 ]
          ELSE [ flags |-> requested, files |-> files, invoked |-> 0 ]
  ELSE [ flags |-> flags, files |-> files, invoked |-> 0 ]

GetLanguage ==
  /\ IF m_language = eLanguageTypeUnknown /\ flagsParsedLanguage \notin m_flags
     THEN /\ m_flags' = MarkRequested(m_flags, flagsParsedLanguage)
          /\ IF hasSymFile
             THEN /\ \E answer \in LanguageTypes : m_language' = answer
                  /\ calls' = Invoke("ParseLanguage")
             ELSE UNCHANGED << m_language, calls >>
     ELSE UNCHANGED << m_flags, m_language, calls >>
  /\ UNCHANGED << hasSymFile, m_line_table_up, m_debug_macros_sp, m_imported_modules,
                  m_support_files, m_is_optimized, m_variables, setter_used,
                  lt_phase, lt_gets, lt_parses >>
  /\ UNCHANGED nonCacheVars

GetLineTable ==
  /\ lt_gets < MaxGets
  /\ \E answer \in CacheTables \cup {NullTable} :
       LET r == GetLineTableResult(m_flags, m_line_table_up, answer)
       IN /\ r.invoked = 0 => answer = NullTable
          /\ m_flags' = r.flags
          /\ m_line_table_up' = r.table
          /\ calls' = IF r.invoked = 1 THEN Invoke("ParseLineTable") ELSE calls
          /\ lt_gets' = lt_gets + 1
          /\ lt_parses' = lt_parses + r.invoked
  /\ UNCHANGED << hasSymFile, m_language, m_debug_macros_sp, m_imported_modules,
                  m_support_files, m_is_optimized, m_variables, setter_used, lt_phase >>
  /\ UNCHANGED nonCacheVars

SetLineTable ==
  /\ calls["ParseLineTable"] < MaxCalls
  /\ \E line_table \in CacheTables \cup {NullTable} :
       /\ m_flags' = SetterFlags(m_flags, flagsParsedLineTable, line_table = NullTable)
       /\ m_line_table_up' = line_table
       /\ lt_phase' = IF line_table = NullTable /\ flagsParsedLineTable \in m_flags
                      THEN "reset" ELSE "none"
  /\ lt_gets' = 0
  /\ lt_parses' = 0
  /\ setter_used' = TRUE
  /\ UNCHANGED << hasSymFile, m_language, m_debug_macros_sp, m_imported_modules,
                  m_support_files, m_is_optimized, m_variables, calls >>
  /\ UNCHANGED nonCacheVars

GetDebugMacros ==
  /\ IF m_debug_macros_sp = FALSE /\ flagsParsedDebugMacros \notin m_flags
     THEN IF hasSymFile
          THEN /\ calls' = Invoke("ParseDebugMacros")
               /\ \E answer \in BOOLEAN :
                    \* the backend hands its macros to SetDebugMacros, or has none
                    /\ m_debug_macros_sp' = answer
                    /\ m_flags' = IF answer
                                  THEN SetterFlags(MarkRequested(m_flags, flagsParsedDebugMacros),
                                                   flagsParsedDebugMacros, FALSE)
                                  ELSE MarkRequested(m_flags, flagsParsedDebugMacros)
          ELSE /\ m_flags' = MarkRequested(m_flags, flagsParsedDebugMacros)
               /\ UNCHANGED << m_debug_macros_sp, calls >>
     ELSE UNCHANGED << m_flags, m_debug_macros_sp, calls >>
  /\ UNCHANGED << hasSymFile, m_language, m_line_table_up, m_imported_modules,
                  m_support_files, m_is_optimized, m_variables, setter_used,
                  lt_phase, lt_gets, lt_parses >>
  /\ UNCHANGED nonCacheVars

SetDebugMacros ==
  /\ calls["ParseDebugMacros"] < MaxCalls
  /\ \E debug_macros_sp \in BOOLEAN :
       /\ m_flags' = SetterFlags(m_flags, flagsParsedDebugMacros, ~debug_macros_sp)
       /\ m_debug_macros_sp' = debug_macros_sp
  /\ setter_used' = TRUE
  /\ UNCHANGED << hasSymFile, m_language, m_line_table_up, m_imported_modules,
                  m_support_files, m_is_optimized, m_variables, calls,
                  lt_phase, lt_gets, lt_parses >>
  /\ UNCHANGED nonCacheVars

GetImportedModules ==
  /\ IF Len(m_imported_modules) = 0 /\ flagsParsedImportedModules \notin m_flags
     THEN /\ m_flags' = MarkRequested(m_flags, flagsParsedImportedModules)
          /\ IF hasSymFile
             THEN /\ \E answer \in { <<>>, <<"std">> } : m_imported_modules' = answer
                  /\ calls' = Invoke("ParseImportedModules")
             ELSE UNCHANGED << m_imported_modules, calls >>
     ELSE UNCHANGED << m_flags, m_imported_modules, calls >>
  /\ UNCHANGED << hasSymFile, m_language, m_line_table_up, m_debug_macros_sp,
                  m_support_files, m_is_optimized, m_variables, setter_used,
                  lt_phase, lt_gets, lt_parses >>
  /\ UNCHANGED nonCacheVars

GetSupportFiles ==
  /\ \E answer \in SupportFileLists :
       LET r == GetSupportFilesResult(m_flags, m_support_files, answer)
       IN /\ r.invoked = 0 => answer = <<>>
          /\ m_flags' = r.flags
          /\ m_support_files' = r.files
          /\ calls' = IF r.invoked = 1 THEN Invoke("ParseSupportFiles") ELSE calls
  /\ UNCHANGED << hasSymFile, m_language, m_line_table_up, m_debug_macros_sp,
                  m_imported_modules, m_is_optimized, m_variables, setter_used,
                  lt_phase, lt_gets, lt_parses >>
  /\ UNCHANGED nonCacheVars

\* The state GetIsOptimized stores when it resolves it: eLazyBoolNo first,
\* eLazyBoolYes when there is a symbol file and ParseIsOptimized answers true.
ResolvedIsOptimized_YesByDefault(has_symfile, answer) ==
  IF has_symfile /\ ~answer THEN eLazyBoolNo ELSE eLazyBoolYes

ResolvedIsOptimized(has_symfile, answer) ==
  IF has_symfile /\ answer THEN eLazyBoolYes ELSE eLazyBoolNo

GetIsOptimized ==
  /\ \E answer \in BOOLEAN :
       LET resolves == m_is_optimized = eLazyBoolCalculate
           invokes == resolves /\ hasSymFile
       IN /\ ~invokes => ~answer
          /\ m_is_optimized' = IF resolves THEN ResolvedIsOptimized(hasSymFile, answer)
                               ELSE m_is_optimized
          /\ calls' = IF invokes THEN Invoke("ParseIsOptimized") ELSE calls
          /\ opt' = [ called |-> TRUE, before |-> m_is_optimized,
                      invoked |-> IF invokes THEN 1 ELSE 0, answer |-> answer,
                      result |-> m_is_optimized' ]
  /\ UNCHANGED << gv, eb, wl >>
  /\ UNCHANGED << hasSymFile, m_language, m_flags, m_line_table_up, m_debug_macros_sp,
                  m_imported_modules, m_support_files, m_variables, setter_used,
                  lt_phase, lt_gets, lt_parses >>
  /\ UNCHANGED << registryVars, resolveVars >>

NextCache ==
  \/ GetLanguage
  \/ GetLineTable
  \/ SetLineTable
  \/ GetDebugMacros
  \/ SetDebugMacros
  \/ GetImportedModules
  \/ GetSupportFiles
  \/ GetIsOptimized

SpecCache == InitCache /\ [][NextCache]_vars

(***************************************************************************)
(* The function registry.  m_functions_by_uid is a hash map: its iteration *)
(* order is not the order of the ids (ForeachFunction sorts for that       *)
(* reason), so every order of the keys is a possible iteration order.      *)
(***************************************************************************)
IterationOrders(map) ==
  { order \in [1..Cardinality(DOMAIN map) -> DOMAIN map] :
      \A i, j \in 1..Cardinality(DOMAIN map) : i # j => order[i] # order[j] }

\* m_functions_by_uid[funcSP->GetID()] = funcSP
AddFunctionTo_KeepFirst(map, funcSP) ==
  [id \in DOMAIN map \cup {funcSP.id} |-> IF id \in DOMAIN map THEN map[id] ELSE funcSP]

AddFunctionTo(map, funcSP) ==
  [id \in DOMAIN map \cup {funcSP.id} |-> IF id = funcSP.id THEN funcSP ELSE map[id]]

AddFunction ==
  /\ Len(reg_log) < MaxAdds
  /\ \E funcSP \in Functions :
       /\ m_functions_by_uid' = AddFunctionTo(m_functions_by_uid, funcSP)
       /\ reg_log' = Append(reg_log, funcSP)
  /\ lookup' = LookupIdle
  /\ fe' = ForeachIdle
  /\ ff' = FindIdle
  /\ UNCHANGED << cacheVars, resolveVars, variableVars >>

FindFunctionByUIDResult(func_uid) ==
  IF func_uid \notin DOMAIN m_functions_by_uid THEN NullFunction
  ELSE m_functions_by_uid[func_uid]

FindFunctionByUID ==
  /\ \E func_uid \in FuncIds :
       lookup' = [called |-> TRUE, uid |-> func_uid,
                  result |-> FindFunctionByUIDResult(func_uid)]
  /\ fe' = ForeachIdle
  /\ ff' = FindIdle
  /\ UNCHANGED << cacheVars, resolveVars, variableVars, m_functions_by_uid, reg_log >>

\* llvm::sort with the comparator a->GetID() < b->GetID(), as an insertion sort.
RECURSIVE InsertById(_, _)
InsertById(f, sorted) ==
  IF sorted = <<>> THEN << f >>
  ELSE IF f.id < Head(sorted).id THEN << f >> \o sorted
  ELSE << Head(sorted) >> \o InsertById(f, Tail(sorted))

RECURSIVE SortById(_)
SortById(fs) ==
  IF fs = <<>> THEN <<>> ELSE InsertById(Head(fs), SortById(Tail(fs)))

\* sorted_functions: the map's values in iteration order, then sorted.
SortedFunctions_Unsorted(order) ==
  [i \in 1..Len(order) |-> m_functions_by_uid[order[i]]]

SortedFunctions(order) ==
  SortById([i \in 1..Len(order) |-> m_functions_by_uid[order[i]]])

\* for (auto &f : fs) if (lambda(f)) return;  -- the functions the lambda saw,
\* the lambda returning true on the ids in `stop`.
RECURSIVE VisitUntil(_, _)
VisitUntil(fs, stop) ==
  IF fs = <<>> THEN <<>>
  ELSE IF Head(fs).id \in stop THEN << Head(fs) >>
  ELSE << Head(fs) >> \o VisitUntil(Tail(fs), stop)

ForeachFunction ==
  /\ \E stop \in SUBSET FuncIds, order \in IterationOrders(m_functions_by_uid) :
       fe' = [called |-> TRUE, stop |-> stop,
              visited |-> VisitUntil(SortedFunctions(order), stop)]
  /\ lookup' = LookupIdle
  /\ ff' = FindIdle
  /\ UNCHANGED << cacheVars, resolveVars, variableVars, m_functions_by_uid, reg_log >>

\* The scan of FindFunction over the map in iteration order: the ids the
\* predicate was evaluated on, the predicate holding on the ids in `match`.
RECURSIVE EvaluatedUntil(_, _)
EvaluatedUntil(ids, match) ==
  IF ids = <<>> THEN <<>>
  ELSE IF Head(ids) \in match THEN << Head(ids) >>
  ELSE << Head(ids) >> \o EvaluatedUntil(Tail(ids), match)

FirstMatch_IgnoringLambda(map, order, match) ==
  IF Len(order) = 0 THEN NullFunction ELSE map[order[1]]

FirstMatch(map, order, match) ==
  LET seen == EvaluatedUntil(order, match)
  IN IF seen # <<>> /\ seen[Len(seen)] \in match THEN map[seen[Len(seen)]]
     ELSE NullFunction

\* The map FindFunction scans: the backend's ParseFunctions has registered
\* the functions `parsed` in it before the scan starts.
MapAfterParseFunctions_ScanFirst(map, parsed) == map

MapAfterParseFunctions(map, parsed) ==
  IF parsed = <<>> THEN map ELSE AddFunctionTo(map, parsed[1])

\* FindFunction: without a symbol file nothing is parsed or scanned; with one,
\* the backend's ParseFunctions registers the functions `parsed` first.
FindFunction ==
  /\ calls["ParseFunctions"] < MaxCalls
  /\ \E match \in SUBSET FuncIds :
       IF ~hasSymFile
       THEN /\ ff' = [called |-> TRUE, match |-> match, parsed |-> <<>>, order |-> <<>>,
                      evaluated |-> <<>>, result |-> NullFunction]
            /\ UNCHANGED << m_functions_by_uid, reg_log, calls >>
       ELSE \E parsed \in SeqsUpTo(Functions, 1) :
              /\ Len(reg_log) + Len(parsed) <= MaxAdds
              /\ LET map == MapAfterParseFunctions(m_functions_by_uid, parsed)
                 IN /\ m_functions_by_uid' = map
                    /\ reg_log' = reg_log \o parsed
                    /\ calls' = Invoke("ParseFunctions")
                    /\ \E order \in IterationOrders(map) :
                         ff' = [called |-> TRUE, match |-> match, parsed |-> parsed,
                                order |-> order,
                                evaluated |-> EvaluatedUntil(order, match),
                                result |-> FirstMatch(map, order, match)]
  /\ lookup' = LookupIdle
  /\ fe' = ForeachIdle
  /\ UNCHANGED << hasSymFile, m_language, m_flags, m_line_table_up, m_debug_macros_sp,
                  m_imported_modules, m_support_files, m_is_optimized, m_variables,
                  setter_used, lt_phase, lt_gets, lt_parses, resolveVars, variableVars >>

InitRegistry ==
  /\ RegistryEmpty
  /\ ResolveIdle
  /\ hasSymFile \in BOOLEAN
  /\ Construct(eLanguageTypeUnknown, eLazyBoolCalculate, <<>>)
  /\ calls = [fn \in BackendFns |-> 0]
  /\ setter_used = FALSE
  /\ lt_phase = "none"
  /\ lt_gets = 0
  /\ lt_parses = 0

NextRegistry ==
  \/ AddFunction
  \/ FindFunctionByUID
  \/ ForeachFunction
  \/ FindFunction

SpecRegistry == InitRegistry /\ [][NextRegistry]_vars

(***************************************************************************)
(* Files, support-file indexes and the line table's search.                *)
(***************************************************************************)
\* FileSpec::Match(pattern, file): a pattern without a directory matches on
\* the file name alone.
FileSpecMatch(pattern, file) ==
  IF pattern.dir # "" THEN pattern = file ELSE pattern.name = file.name

\* RealpathPrefixes::ResolveSymlinks: /lnk is a symbolic link to /src.
ResolveSymlinks(file) ==
  IF file.dir = "/lnk" THEN FileSpecOf("/src", file.name) ELSE file

\* Whether support file `curr` is compatible with the file sought: the names
\* agree and so do the directories where both give one; with realpath
\* prefixes the support file is also tried with its symbolic links resolved.
IsCompatible(curr, file, realpath_prefixes) ==
  /\ curr.name = file.name
  /\ \/ curr.dir = "" \/ file.dir = "" \/ curr.dir = file.dir
     \/ realpath_prefixes /\ ResolveSymlinks(curr).dir = file.dir

\* SupportFileList::FindCompatibleIndex(start_idx, file, realpath_prefixes)
RECURSIVE FindCompatibleIndex(_, _, _, _)
FindCompatibleIndex(files, start_idx, file, realpath_prefixes) ==
  IF start_idx >= Len(files) THEN NotFound
  ELSE IF IsCompatible(files[start_idx + 1], file, realpath_prefixes) THEN start_idx
  ELSE FindCompatibleIndex(files, start_idx + 1, file, realpath_prefixes)

\* The loop of FindFileIndexes, from index `from` on.
RECURSIVE FindFileIndexesFrom(_, _, _, _)
FindFileIndexesFrom(files, from, file, realpath_prefixes) ==
  LET idx == FindCompatibleIndex(files, from, file, realpath_prefixes)
  IN IF idx = NotFound THEN <<>>
     ELSE << idx >> \o FindFileIndexesFrom(files, idx + 1, file, realpath_prefixes)

FindFileIndexes(files, file, realpath_prefixes) ==
  FindFileIndexesFrom(files, 0, file, realpath_prefixes)

\* The search loop of the line table from row `idx` on, `best` being the best
\* inexact match so far: the first row of a file in `file_idxs` whose line (and
\* column, when the query has one) equals the query's; failing that, for an
\* inexact query, the row of the smallest larger line.
RECURSIVE FindLineEntryIndexImpl(_, _, _, _, _)
FindLineEntryIndexImpl(table, idx, best, file_idxs, spec) ==
  IF idx >= Len(table.entries) THEN best
  ELSE LET row == table.entries[idx + 1]
           bestrow == table.entries[best + 1]
       IN IF row.file_idx \notin file_idxs \/ row.line < spec.line
          THEN FindLineEntryIndexImpl(table, idx + 1, best, file_idxs, spec)
          ELSE IF /\ row.line = spec.line
                  /\ spec.column = InvalidColumn \/ row.column = spec.column
          THEN idx
          ELSE IF spec.exact
          THEN FindLineEntryIndexImpl(table, idx + 1, best, file_idxs, spec)
          ELSE IF \/ best = NotFound
                  \/ row.line < bestrow.line
                  \/ /\ spec.column # InvalidColumn
                     /\ row.line = bestrow.line
                     /\ row.column # 0
                     /\ row.column < bestrow.column
          THEN FindLineEntryIndexImpl(table, idx + 1, idx, file_idxs, spec)
          ELSE FindLineEntryIndexImpl(table, idx + 1, best, file_idxs, spec)

\* The found index and *line_entry_ptr, which keeps `line_entry` when no row
\* is found.
FoundAt(files, table, idx, line_entry) ==
  [ idx |-> idx,
    line_entry |-> IF idx = NotFound THEN line_entry
                   ELSE ConvertEntryAtIndexToLineEntry(files, table, idx) ]

\* LineTable::FindLineEntryIndexByFileIndex, for one support-file index ...
FindLineEntryIndexByFileIndex(files, table, start_idx, file_idx, spec, line_entry) ==
  FoundAt(files, table,
          FindLineEntryIndexImpl(table, start_idx, NotFound, {file_idx}, spec), line_entry)

\* ... and for several.
FindLineEntryIndexByFileIndexes(files, table, start_idx, file_indexes, spec, line_entry) ==
  FoundAt(files, table,
          FindLineEntryIndexImpl(table, start_idx, NotFound,
                                 { file_indexes[i] : i \in 1..Len(file_indexes) }, spec),
          line_entry)

(***************************************************************************)
(* ResolveSymbolContext: address resolution (an input), the inline         *)
(* call-site fallback and the forward scan of the line table.              *)
(***************************************************************************)
eSymbolContextLineEntry == "LineEntry"
\* The resolve_scope values explored: the line entry alone, everything, and a
\* scope without the line entry.
ResolveScopes ==
  { {eSymbolContextLineEntry},
    {"CompUnit", "Function", "Block", eSymbolContextLineEntry, "Symbol"},
    {"CompUnit", "Function"} }

\* What address resolution answers for an address: a context of this unit, of
\* another unit, of no unit but a module, or nothing at all.
ResolutionKinds == {"this", "other", "no_unit", "nothing"}

\* Address::CalculateSymbolContext(&sc, resolve_scope) for an address that lies
\* in `block` and in the line-table row `line_entry` of this unit: only the
\* parts that resolve_scope asks for are filled in.
CalculateSymbolContext(kind, resolve_scope, block, line_entry) ==
  CASE kind = "this" ->
         SymbolContext(TRUE, "this",
                       IF "Function" \in resolve_scope THEN "f" ELSE "none",
                       IF "Block" \in resolve_scope THEN block ELSE NoBlock,
                       IF eSymbolContextLineEntry \in resolve_scope THEN line_entry
                       ELSE InvalidLineEntry,
                       "Symbol" \in resolve_scope)
    [] kind = "other" ->
         SymbolContext(TRUE, "other",
                       IF "Function" \in resolve_scope THEN "g" ELSE "none",
                       NoBlock,
                       IF eSymbolContextLineEntry \in resolve_scope
                       THEN [file |-> HeaderFile, line |-> 1, column |-> 0,
                             range |-> ForeignRange]
                       ELSE InvalidLineEntry,
                       "Symbol" \in resolve_scope)
    [] kind = "no_unit" -> [EmptyContext EXCEPT !.module = TRUE]
    [] OTHER -> EmptyContext

\* The search of lines 304-316 and 483-488: the single-index form when one
\* support file matches, the multi-index form otherwise.
SearchLineTable(files, table, start_idx, file_indexes, spec, line_entry) ==
  IF Len(file_indexes) = 1
  THEN FindLineEntryIndexByFileIndex(files, table, start_idx, file_indexes[1], spec,
                                     line_entry)
  ELSE FindLineEntryIndexByFileIndexes(files, table, start_idx, file_indexes, spec,
                                       line_entry)

\* if (!file_spec_matches_cu_file_spec && !check_inlines) return;
NothingToFind_InlinesOnly(file_spec_matches_cu_file_spec, check_inlines) ==
  ~file_spec_matches_cu_file_spec /\ check_inlines

NothingToFind(file_spec_matches_cu_file_spec, check_inlines) ==
  ~file_spec_matches_cu_file_spec /\ ~check_inlines

\* The condition under which the inline call-site fallback is entered.
FallbackTriggered_Unasked(line_entry, line, column_num, resolve_scope, check_inlines) ==
  /\ IsValid(line_entry)
  /\ \/ line_entry.line # line
     \/ column_num # 0 /\ line_entry.column # column_num
  /\ eSymbolContextLineEntry \in resolve_scope

FallbackTriggered(line_entry, line, column_num, resolve_scope, check_inlines) ==
  /\ IsValid(line_entry)
  /\ \/ line_entry.line # line
     \/ column_num # 0 /\ line_entry.column # column_num
  /\ eSymbolContextLineEntry \in resolve_scope
  /\ check_inlines

\* Declaration::FileAndLineEqual(a, b, /*full=*/false): the directories are
\* compared only when both declarations have one.
FileAndLineEqual(a, b) ==
  /\ a.file.name = b.file.name
  /\ a.file.dir = "" \/ b.file.dir = "" \/ a.file.dir = b.file.dir
  /\ a.line = b.line

\* Whether block `b` of the function (0: its top-level block) has a start
\* address, which it has when it has an address range.
HasStartAddress(function, b) ==
  IF b = 0 THEN function.has_range ELSE function.blocks[b].has_range

\* The call-site context built from the context `sc` resolved at the parent's
\* start address: the line and column of the call site, and the first address
\* range of the inlined block, which GetRangeAtIndex(0, call_site_line.range)
\* writes over the range of sc's line entry.
CallSiteContext_ParentRange(sc, found_decl, sibling_block) ==
  [sc EXCEPT !.line_entry = [sc.line_entry EXCEPT !.line = found_decl.line,
                                                  !.column = found_decl.column]]

CallSiteContext(sc, found_decl, sibling_block) ==
  [sc EXCEPT !.line_entry = [sc.line_entry EXCEPT !.line = found_decl.line,
                                                  !.column = found_decl.column,
                                                  !.range = BlockRange(sibling_block)]]

\* matches_spec: an exact query accepts the call site only when the file of
\* the resolved line entry, the line and the column equal the query's.
MatchesSpec_IgnoringColumn(src_location_spec, sc, call_site_line) ==
  src_location_spec.exact =>
    /\ src_location_spec.file = sc.line_entry.file
    /\ src_location_spec.line # InvalidLine
    /\ src_location_spec.line = call_site_line.line

MatchesSpec(src_location_spec, sc, call_site_line) ==
  src_location_spec.exact =>
    /\ src_location_spec.file = sc.line_entry.file
    /\ src_location_spec.line # InvalidLine
    /\ src_location_spec.line = call_site_line.line
    /\ src_location_spec.column # InvalidColumn
    /\ src_location_spec.column = call_site_line.column

\* One sibling block seen by examine_block: whether its call site is the one
\* sought, the context resolved at its parent's start address, and the
\* context appended for it, if any.  env holds what the lambda captures and
\* what address resolution answers at a parent's start address.
ExamineSibling(env, sibling_block) ==
  LET block == env.function.blocks[sibling_block]
      found_decl == block.call_site
      is_call_site ==
        /\ block.inlined
        /\ FileAndLineEqual(found_decl, env.sought_decl)
        /\ \/ env.sought_decl.column = InvalidColumn
           \/ env.sought_decl.column = found_decl.column
      has_start == is_call_site /\ HasStartAddress(env.function, block.parent)
      sc == IF has_start
            THEN CalculateSymbolContext(env.parent_kind, env.resolve_scope, block.parent,
                                        env.parent_line_entry)
            ELSE EmptyContext
      call_site_sc == CallSiteContext(sc, found_decl, sibling_block)
      appended == /\ has_start
                  /\ MatchesSpec(env.src_location_spec, sc, call_site_sc.line_entry)
                  /\ block.has_range
  IN [ block |-> sibling_block, is_call_site |-> is_call_site, sc |-> sc,
       appended |-> appended, context |-> IF appended THEN call_site_sc ELSE EmptyContext ]

\* The child blocks of block b, in sibling order.
ChildrenOf(function, b) ==
  SelectSeq([i \in 1..Len(function.blocks) |-> i],
            LAMBDA i : function.blocks[i].parent = b)

\* examine_block(block): every sibling child is tested, then descended into,
\* before the next sibling.  The result lists the blocks in the order seen.
RECURSIVE ExamineSiblings(_, _)
ExamineSiblings(env, siblings) ==
  IF siblings = <<>> THEN <<>>
  ELSE << ExamineSibling(env, Head(siblings)) >>
       \o ExamineSiblings(env, ChildrenOf(env.function, Head(siblings)))
       \o ExamineSiblings(env, Tail(siblings))

examine_block_OuterSiblingsFirst(env, block) ==
  LET seen == ExamineSiblings(env, ChildrenOf(env.function, block))
  IN SelectSeq(seen, LAMBDA e : env.function.blocks[e.block].parent = block)
     \o SelectSeq(seen, LAMBDA e : env.function.blocks[e.block].parent # block)

examine_block(env, block) == ExamineSiblings(env, ChildrenOf(env.function, block))

\* if (sc_list.GetSize() > old_sc_list_size) return;
FallbackFoundEntries_Never(size, old_sc_list_size) == FALSE

FallbackFoundEntries(size, old_sc_list_size) == size > old_sc_list_size

\* SourceLocationSpec found_entry(line_entry.GetFile(), line_entry.line, column,
\*                                inlines, exact)
FoundEntrySpec_WithoutColumn(src_location_spec, line_entry) ==
  SourceLocationSpec(line_entry.file, line_entry.line, InvalidColumn, FALSE, TRUE)

FoundEntrySpec_Inexact(src_location_spec, line_entry) ==
  SourceLocationSpec(line_entry.file, line_entry.line,
                     IF src_location_spec.column # InvalidColumn THEN line_entry.column
                     ELSE InvalidColumn,
                     FALSE, FALSE)

FoundEntrySpec(src_location_spec, line_entry) ==
  SourceLocationSpec(line_entry.file, line_entry.line,
                     IF src_location_spec.column # InvalidColumn THEN line_entry.column
                     ELSE InvalidColumn,
                     FALSE, TRUE)

\* The context one iteration of the forward scan appends: `sc` with the
\* current line entry, or the resolved context when it names this unit.
ScanAppends_AlwaysResolved(sc, resolved_sc, resolve_scope) ==
  IF resolve_scope = {eSymbolContextLineEntry} THEN sc ELSE resolved_sc

ScanAppends(sc, resolved_sc, resolve_scope) ==
  IF resolve_scope = {eSymbolContextLineEntry} THEN sc
  ELSE IF resolved_sc.comp_unit = "this" THEN resolved_sc
  ELSE sc

\* Whether the iteration reports an error to the resolved context's module.
ReportsError_AnyOtherUnit(resolved_sc, resolve_scope) ==
  /\ resolve_scope # {eSymbolContextLineEntry}
  /\ resolved_sc.comp_unit # "this"
  /\ resolved_sc.module

ReportsError(resolved_sc, resolve_scope) ==
  /\ resolve_scope # {eSymbolContextLineEntry}
  /\ resolved_sc.comp_unit # "this"
  /\ resolved_sc.comp_unit = "none" /\ resolved_sc.module

\* One iteration of while (line_idx != UINT32_MAX) { ... } for the row
\* `line_idx` and its line entry: the context resolved for the row's address
\* (`kind` is what address resolution answers there) and the context appended.
ScanIteration(resolve_scope, kind, line_idx, line_entry) ==
  LET sc == [UnitContext EXCEPT !.line_entry = line_entry]
      resolved_sc ==
        IF resolve_scope = {eSymbolContextLineEntry} THEN EmptyContext
        ELSE CalculateSymbolContext(kind, resolve_scope, 0, line_entry)
  IN [ row |-> line_idx, sc |-> sc, resolved_sc |-> resolved_sc,
       appended |-> ScanAppends(sc, resolved_sc, resolve_scope),
       reported |-> ReportsError(resolved_sc, resolve_scope) ]

\* The rows the loop handles, from the row found first: each search starts
\* one row past the last row found and looks for found_entry.
NextStart_SkippingARow(line_idx) == line_idx + 2

\* FindLineEntryIndexByFileIndex(line_idx + 1, ...): where the next search starts.
NextStart(line_idx) == line_idx + 1

RECURSIVE ScannedRows(_, _, _, _, _, _)
ScannedRows(files, table, file_indexes, found_entry, line_idx, line_entry) ==
  IF line_idx = NotFound THEN <<>>
  ELSE LET next == SearchLineTable(files, table, NextStart(line_idx), file_indexes,
                                   found_entry, line_entry)
       IN << [idx |-> line_idx, line_entry |-> line_entry] >>
          \o ScannedRows(files, table, file_indexes, found_entry, next.idx, next.line_entry)

\* The iterations of the loop over the rows it handles; kinds[row] is what
\* address resolution answers for the row's address.
ForwardScan(resolve_scope, kinds, scanned) ==
  [ i \in 1..Len(scanned) |->
      ScanIteration(resolve_scope, kinds[scanned[i].idx + 1], scanned[i].idx,
                    scanned[i].line_entry) ]

\* The query's file and the realpath prefixes passed with it.
FileQueries ==
  { [file |-> PrimaryFile, realpath_prefixes |-> FALSE],
    [file |-> PrimaryFile, realpath_prefixes |-> TRUE],
    [file |-> BaseOnlyFile, realpath_prefixes |-> FALSE],
    [file |-> HeaderFile, realpath_prefixes |-> FALSE],
    [file |-> OtherDirFile, realpath_prefixes |-> FALSE] }

\* The contexts the appending steps of a list of steps appended, in order.
RECURSIVE AppendedBy(_)
AppendedBy(steps) ==
  IF steps = <<>> THEN <<>>
  ELSE (IF Head(steps).appended THEN << Head(steps).context >> ELSE <<>>)
       \o AppendedBy(Tail(steps))

Count(seq, x) == Cardinality({ i \in 1..Len(seq) : seq[i] = x })

\* The end of a call: the cache as the call leaves it, the backend functions
\* it invoked (in order), and the record of the call.
Return(flags, files, table, invoked, result) ==
  /\ m_flags' = flags
  /\ m_support_files' = files
  /\ m_line_table_up' = table
  /\ calls' = [f \in BackendFns |-> calls[f] + Count(invoked, f)]
  /\ rs' = [result EXCEPT !.invoked = invoked]
  /\ UNCHANGED << hasSymFile, m_language, m_debug_macros_sp, m_imported_modules,
                  m_is_optimized, m_variables, setter_used, lt_phase, lt_gets, lt_parses,
                  registryVars, variableVars, func >>

\* What the addresses of the rows resolve to: a choice for every row whose
\* address the scan resolves, which are the rows it handles when the scope
\* asks for more than the line entry.
ResolutionsOf(table, resolve_scope, scanned) ==
  LET rows == 1..Len(table.entries)
      resolved == IF resolve_scope = {eSymbolContextLineEntry} THEN {}
                  ELSE { scanned[i].idx + 1 : i \in 1..Len(scanned) }
  IN { kinds \in [rows -> ResolutionKinds] :
         \A i \in rows : i \notin resolved => kinds[i] = "this" }

\* Without a line, and without a line table: the unit's own context is
\* appended when the file matches and no inline call sites are sought.
UnitLevelResult_WheneverMatched(sc_list, file_spec_matches_cu_file_spec, check_inlines) ==
  IF file_spec_matches_cu_file_spec THEN Append(sc_list, UnitContext) ELSE sc_list

UnitLevelResult(sc_list, file_spec_matches_cu_file_spec, check_inlines) ==
  IF file_spec_matches_cu_file_spec /\ ~check_inlines
  THEN Append(sc_list, UnitContext) ELSE sc_list

\* The values the handler computes once and uses again are bound by a
\* quantifier over a one-element set.
ResolveSymbolContext ==
  /\ ~rs.called
  /\ \E fq \in FileQueries, line \in 0..MaxLine, column_num \in 0..MaxColumn,
        check_inlines \in BOOLEAN, exact \in BOOLEAN, resolve_scope \in ResolveScopes,
        old \in { <<>>, << PriorContext >> } :
       LET file_spec == fq.file
           src_location_spec ==
             SourceLocationSpec(file_spec, line, column_num, check_inlines, exact)
           file_spec_matches_cu_file_spec == FileSpecMatch(file_spec, PrimaryFile)
           unit_level == UnitLevelResult(old, file_spec_matches_cu_file_spec,
                                         check_inlines)
           call == [ called |-> TRUE, exit |-> "", crashed |-> FALSE,
                     src_location_spec |-> src_location_spec,
                     resolve_scope |-> resolve_scope,
                     realpath_prefixes |-> fq.realpath_prefixes,
                     file_spec_matches |-> file_spec_matches_cu_file_spec,
                     old |-> old, sc_list |-> old, invoked |-> <<>>,
                     file_indexes |-> <<>>, table |-> NullTable,
                     line_idx |-> NotFound, line_entry |-> InvalidLineEntry,
                     fallback |-> FALSE, examined |-> <<>>, scan |-> <<>> ]
       IN
       IF NothingToFind(file_spec_matches_cu_file_spec, check_inlines)
       THEN Return(m_flags, m_support_files, m_line_table_up, <<>>,
                   [call EXCEPT !.exit = "no_match"])
       ELSE IF line = InvalidLine
       THEN Return(m_flags, m_support_files, m_line_table_up, <<>>,
                   [call EXCEPT !.exit = "no_line", !.sc_list = unit_level])
       ELSE
       \E sf_answer \in SupportFileLists :
         \E sf \in {GetSupportFilesResult(m_flags, m_support_files, sf_answer)} :
         \E file_indexes \in {FindFileIndexes(sf.files, file_spec, fq.realpath_prefixes)} :
         LET sf_invoked == IF sf.invoked = 1 THEN << "ParseSupportFiles" >> ELSE <<>>
             call2 == [call EXCEPT !.file_indexes = file_indexes]
         IN
         /\ sf.invoked = 0 => sf_answer = <<>>
         /\ IF Len(file_indexes) = 0
            THEN Return(sf.flags, sf.files, m_line_table_up, sf_invoked,
                        [call2 EXCEPT !.exit = "no_files"])
            ELSE
            \* GetSymbolFile()->SetLoadDebugInfoEnabled() through a null pointer is
            \* undefined: the call crashes, or goes on as if nothing was called.
            \E crash \in IF hasSymFile THEN {FALSE} ELSE BOOLEAN :
              IF crash
              THEN Return(sf.flags, sf.files, m_line_table_up, sf_invoked,
                          [call2 EXCEPT !.exit = "crash", !.crashed = TRUE])
              ELSE
              \E lt_answer \in CacheTables \cup {NullTable} :
                \E lt \in {GetLineTableResult(sf.flags, m_line_table_up, lt_answer)} :
                LET invoked == sf_invoked
                               \o (IF hasSymFile THEN << "SetLoadDebugInfoEnabled" >>
                                   ELSE <<>>)
                               \o (IF lt.invoked = 1 THEN << "ParseLineTable" >> ELSE <<>>)
                    line_table == lt.table
                IN
                /\ lt.invoked = 0 => lt_answer = NullTable
                /\ IF line_table = NullTable
                   THEN Return(lt.flags, sf.files, line_table, invoked,
                               [call2 EXCEPT !.exit = "no_table", !.sc_list = unit_level])
                   ELSE
                   \E found \in {SearchLineTable(sf.files, line_table, 0, file_indexes,
                                                src_location_spec, InvalidLineEntry)} :
                   \E scanned \in {ScannedRows(sf.files, line_table, file_indexes,
                                              FoundEntrySpec(src_location_spec,
                                                             found.line_entry),
                                              found.idx, found.line_entry)} :
                   LET fallback == FallbackTriggered(found.line_entry, line, column_num,
                                                     resolve_scope, check_inlines)
                       call3 == [call2 EXCEPT !.table = line_table,
                                              !.line_idx = found.idx,
                                              !.line_entry = found.line_entry,
                                              !.fallback = fallback]
                       rows == 1..Len(line_table.entries)
                   IN
                   \E parent_kind \in IF fallback /\ func.exists
                                      THEN {"this", "other", "nothing"} ELSE {"nothing"},
                      parent_row \in IF fallback /\ func.exists THEN rows ELSE {1} :
                     \E examined \in
                          { IF fallback /\ func.exists
                            THEN examine_block(
                                   [ function |-> func,
                                     sought_decl |-> Declaration(file_spec, line, column_num),
                                     src_location_spec |-> src_location_spec,
                                     resolve_scope |-> resolve_scope,
                                     parent_kind |-> parent_kind,
                                     parent_line_entry |->
                                       ConvertEntryAtIndexToLineEntry(sf.files, line_table,
                                                                      parent_row - 1) ], 0)
                            ELSE <<>> } :
                     \E sc_list1 \in { old \o AppendedBy(examined) } :
                     IF fallback /\ FallbackFoundEntries(Len(sc_list1), Len(old))
                     THEN Return(lt.flags, sf.files, line_table, invoked,
                                 [call3 EXCEPT !.exit = "inline", !.examined = examined,
                                               !.sc_list = sc_list1])
                     ELSE
                     \E kinds \in ResolutionsOf(line_table, resolve_scope, scanned) :
                     \E scan \in { ForwardScan(resolve_scope, kinds, scanned) } :
                          Return(lt.flags, sf.files, line_table, invoked,
                                 [call3 EXCEPT !.exit = "scan", !.examined = examined,
                                               !.scan = scan,
                                               !.sc_list = sc_list1 \o AppendedBy(
                                                 [i \in 1..Len(scan) |->
                                                    [appended |-> TRUE,
                                                     context |-> scan[i].appended]])])

\* The unit before the call: constructed with some support files, its line
\* table not asked for yet, asked for in vain, or set.
InitResolveWith(symfiles, lists, tables, functions) ==
  /\ RegistryEmpty
  /\ hasSymFile \in symfiles
  /\ m_language = eLanguageTypeUnknown
  /\ m_is_optimized = eLazyBoolCalculate
  /\ m_debug_macros_sp = FALSE
  /\ m_imported_modules = <<>>
  /\ m_variables = NullVariableList
  /\ m_support_files \in lists
  /\ m_line_table_up \in tables
  /\ m_flags \in { flags \in SUBSET {flagsParsedSupportFiles, flagsParsedLineTable} :
                     /\ m_line_table_up # NullTable => flagsParsedLineTable \in flags
                     /\ flagsParsedSupportFiles \in flags => m_support_files = <<>> }
  /\ calls = [f \in BackendFns |-> 0]
  /\ setter_used = FALSE
  /\ lt_phase = "none"
  /\ lt_gets = 0
  /\ lt_parses = 0
  /\ func \in functions
  /\ rs = [called |-> FALSE]
  /\ VariablesIdle

\* Every line table behind a symbol file, or every support file list and
\* the line tables of one row; no function.
InitResolve ==
  \/ InitResolveWith({TRUE}, { <<PrimaryFile, HeaderFile>>, <<PrimaryFile, LinkFile>> },
                     Tables \cup {NullTable}, {NoFunction})
  \/ InitResolveWith(BOOLEAN, SupportFileLists,
                     { t \in Tables : Len(t.entries) = 1 } \cup {NullTable}, {NoFunction})

\* Every function, the line tables of one row.
InitInline ==
  InitResolveWith({TRUE}, { <<PrimaryFile, HeaderFile>> },
                  { t \in CacheTables : Len(t.entries) = 1 /\ t.entries[1].line < MaxLine },
                  FunctionsWithBlocks)

NextResolve ==
  \/ ResolveSymbolContext

SpecResolve == InitResolve /\ [][NextResolve]_vars

SpecInline == InitInline /\ [][NextResolve]_vars

\* examine_block on its own: the lambda of lines 348-409 applied to the
\* function's top-level block for any query, with what lines 330-343 set up
\* for it and any answer of address resolution at a parent's start address.
ExamineBlock ==
  /\ ~eb.called
  /\ func.exists
  /\ m_line_table_up # NullTable
  /\ \E fq \in FileQueries, line \in 1..MaxLine, column_num \in 0..MaxColumn,
        exact \in BOOLEAN, resolve_scope \in ResolveScopes,
        parent_kind \in {"this", "other", "nothing"},
        parent_row \in 1..Len(m_line_table_up.entries) :
       LET src_location_spec == SourceLocationSpec(fq.file, line, column_num, TRUE, exact)
           env == [ function |-> func,
                    sought_decl |-> Declaration(fq.file, line, column_num),
                    src_location_spec |-> src_location_spec,
                    resolve_scope |-> resolve_scope,
                    parent_kind |-> parent_kind,
                    parent_line_entry |->
                      ConvertEntryAtIndexToLineEntry(m_support_files, m_line_table_up,
                                                     parent_row - 1) ]
       IN eb' = [ called |-> TRUE, src_location_spec |-> src_location_spec,
                  resolve_scope |-> resolve_scope,
                  examined |-> examine_block(env, 0) ]
  /\ UNCHANGED << cacheVars, registryVars, resolveVars, gv, opt, wl >>

NextCallSite ==
  \/ ExamineBlock

SpecCallSite == InitInline /\ [][NextCallSite]_vars

(***************************************************************************)
(* The forward scan of ResolveSymbolContext, one loop iteration a step.    *)
(***************************************************************************)
\* The call up to the loop, on a unit whose support files and line table are
\* there already and without a function for the fallback: the file indexes,
\* the primary search and found_entry.
BeginScan ==
  /\ wl.phase = "idle"
  /\ m_support_files # <<>>
  /\ m_line_table_up # NullTable
  /\ \E fq \in FileQueries, line \in 1..MaxLine, column_num \in 0..MaxColumn,
        exact \in BOOLEAN, resolve_scope \in ResolveScopes :
       LET src_location_spec == SourceLocationSpec(fq.file, line, column_num, FALSE, exact)
           file_indexes == FindFileIndexes(m_support_files, fq.file, fq.realpath_prefixes)
           found == SearchLineTable(m_support_files, m_line_table_up, 0, file_indexes,
                                    src_location_spec, InvalidLineEntry)
       IN /\ ~NothingToFind(FileSpecMatch(fq.file, PrimaryFile), FALSE)
          /\ Len(file_indexes) > 0
          /\ wl' = [ phase |-> "loop", src_location_spec |-> src_location_spec,
                     resolve_scope |-> resolve_scope, file_indexes |-> file_indexes,
                     found_entry |-> FoundEntrySpec(src_location_spec, found.line_entry),
                     first |-> found.idx, line_idx |-> found.idx,
                     line_entry |-> found.line_entry, rows |-> <<>>, sc_list |-> <<>> ]
  /\ UNCHANGED << cacheVars, registryVars, resolveVars, gv, opt, eb >>

\* One iteration of while (line_idx != UINT32_MAX): a context is appended for
\* the current row and the next row is searched for.
ScanStep ==
  /\ wl.phase = "loop"
  /\ wl.line_idx # NotFound
  /\ \E kind \in IF wl.resolve_scope = {eSymbolContextLineEntry} THEN {"this"}
                  ELSE ResolutionKinds :
       LET iteration == ScanIteration(wl.resolve_scope, kind, wl.line_idx, wl.line_entry)
           next == SearchLineTable(m_support_files, m_line_table_up,
                                   NextStart(wl.line_idx), wl.file_indexes,
                                   wl.found_entry, wl.line_entry)
       IN wl' = [wl EXCEPT !.rows = Append(@, wl.line_idx),
                           !.sc_list = Append(@, iteration.appended),
                           !.line_idx = next.idx,
                           !.line_entry = next.line_entry]
  /\ UNCHANGED << cacheVars, registryVars, resolveVars, gv, opt, eb >>

\* The loop condition fails and the call returns.
EndScan ==
  /\ wl.phase = "loop"
  /\ wl.line_idx = NotFound
  /\ wl' = [wl EXCEPT !.phase = "done"]
  /\ UNCHANGED << cacheVars, registryVars, resolveVars, gv, opt, eb >>

\* A unit with its support files and some line table.
InitScan ==
  InitResolveWith({TRUE}, { <<PrimaryFile, LinkFile>> }, Tables \ {TableOf(<<>>)},
                  {NoFunction})

NextScan ==
  \/ BeginScan
  \/ ScanStep
  \/ EndScan

\* The loop runs in the calling thread: an iteration that can be taken is taken.
SpecScan == InitScan /\ [][NextScan]_vars /\ WF_vars(NextScan)

(***************************************************************************)
(* The variable list: GetVariableList and SetVariableList.                 *)
(***************************************************************************)
\* if (m_variables.get() == nullptr && can_create)
AsksForVariables(variables, can_create) ==
  variables = NullVariableList /\ can_create

\* GetVariableList(can_create).  The backend, asked, sets a list on the unit
\* or sets none.  sc.module_sp->GetSymbolFile()->ParseVariablesForContext(sc)
\* through a null symbol file is undefined: the call crashes, or returns as
\* if nothing was called.
GetVariableList ==
  /\ calls["ParseVariablesForContext"] < MaxCalls
  /\ \E can_create \in BOOLEAN, answer \in VariableLists \cup {NullVariableList},
        crash \in BOOLEAN :
       LET asks == AsksForVariables(m_variables, can_create)
           invokes == asks /\ hasSymFile
       IN /\ ~invokes => answer = NullVariableList
          /\ ~(asks /\ ~hasSymFile) => ~crash
          /\ m_variables' = IF invokes /\ answer # NullVariableList THEN answer
                            ELSE m_variables
          /\ calls' = IF invokes THEN Invoke("ParseVariablesForContext") ELSE calls
          /\ gv' = [ called |-> TRUE, can_create |-> can_create, before |-> m_variables,
                     invoked |-> IF invokes THEN 1 ELSE 0, crashed |-> crash,
                     result |-> IF crash THEN NullVariableList ELSE m_variables' ]
  /\ UNCHANGED << hasSymFile, m_language, m_flags, m_line_table_up, m_debug_macros_sp,
                  m_imported_modules, m_support_files, m_is_optimized, setter_used,
                  lt_phase, lt_gets, lt_parses, registryVars, resolveVars, opt, eb, wl >>

\* SetVariableList(variables): m_variables = variables.
SetVariableList ==
  /\ \E variables \in VariableLists \cup {NullVariableList} :
       m_variables' = variables
  /\ UNCHANGED << hasSymFile, m_language, m_flags, m_line_table_up, m_debug_macros_sp,
                  m_imported_modules, m_support_files, m_is_optimized, calls, setter_used,
                  lt_phase, lt_gets, lt_parses, registryVars, resolveVars, variableVars >>

InitVariables ==
  /\ RegistryEmpty
  /\ ResolveIdle
  /\ hasSymFile \in BOOLEAN
  /\ \E language \in LanguageTypes, is_optimized \in LazyBools :
       Construct(language, is_optimized, <<>>)
  /\ calls = [fn \in BackendFns |-> 0]
  /\ setter_used = FALSE
  /\ lt_phase = "none"
  /\ lt_gets = 0
  /\ lt_parses = 0

NextVariables ==
  \/ GetVariableList
  \/ SetVariableList

SpecVariables == InitVariables /\ [][NextVariables]_vars

(***************************************************************************)
(* Claims about the cache.                                                 *)
(***************************************************************************)
LazyFetchFns ==
  { "ParseLanguage", "ParseLineTable", "ParseDebugMacros", "ParseImportedModules",
    "ParseSupportFiles", "ParseIsOptimized" }

\* C1: as long as only accessors are called (no setter), the backend fetch
\* function of every lazily resolved field has been invoked at most once,
\* whatever the backend answered.
C1_FetchAtMostOnce ==
  ~setter_used => \A fn \in LazyFetchFns : calls[fn] <= 1

\* GetLineTable was called twice, the backend was asked once, had no table,
\* and the table is still absent.
C1_Witness ==
  /\ ~setter_used
  /\ lt_gets = 2
  /\ calls["ParseLineTable"] = 1
  /\ m_line_table_up = NullTable

\* C2 as stated: after SetLineTable(nullptr) on a requested field the flag is
\* clear, the next GetLineTable invokes ParseLineTable exactly once and the
\* following ones never.
C2_Original ==
  lt_phase = "reset" =>
    /\ lt_gets = 0 => flagsParsedLineTable \notin m_flags /\ lt_parses = 0
    /\ lt_gets >= 1 => lt_parses = 1

\* C2 amended: the same, the single invocation happening when the module has
\* a symbol file; without one the backend is not invoked at all.
C2_ResetRefetchesOnce ==
  lt_phase = "reset" =>
    /\ lt_gets = 0 => flagsParsedLineTable \notin m_flags /\ lt_parses = 0
    /\ lt_gets >= 1 => lt_parses = (IF hasSymFile THEN 1 ELSE 0)

C2_Witness ==
  /\ lt_phase = "reset"
  /\ hasSymFile
  /\ lt_gets = 2
  /\ lt_parses = 1
  /\ m_line_table_up = NullTable

(***************************************************************************)
(* Claims about the function registry.                                     *)
(***************************************************************************)
SetMin(S) == CHOOSE x \in S : \A y \in S : x <= y

\* The function most recently registered under `uid`, NullFunction when none.
RECURSIVE LastRegistered(_, _)
LastRegistered(log, uid) ==
  IF log = <<>> THEN NullFunction
  ELSE IF log[Len(log)].id = uid THEN log[Len(log)]
  ELSE LastRegistered(SubSeq(log, 1, Len(log) - 1), uid)

\* C3: ForeachFunction shows the visitor the registered functions in strictly
\* ascending id order, each id once, up to and including the first one on
\* which the visitor returns true, and none after it.
C3_ForeachAscendingUntilStop ==
  fe.called =>
    LET ids == DOMAIN m_functions_by_uid
        stops == ids \cap fe.stop
        seen == { fe.visited[i].id : i \in 1..Len(fe.visited) }
    IN /\ \A i \in 1..(Len(fe.visited) - 1) : fe.visited[i].id < fe.visited[i + 1].id
       /\ \A i \in 1..Len(fe.visited) :
            /\ fe.visited[i].id \in ids
            /\ fe.visited[i] = m_functions_by_uid[fe.visited[i].id]
       /\ seen = IF stops = {} THEN ids ELSE { id \in ids : id <= SetMin(stops) }

\* Functions were registered in descending id order, and the visitor stopped
\* the enumeration after the second of three.
C3_Witness ==
  /\ fe.called
  /\ Len(reg_log) = 3
  /\ reg_log[1].id > reg_log[2].id
  /\ reg_log[2].id > reg_log[3].id
  /\ Len(fe.visited) = 2

\* C4: FindFunctionByUID returns the function most recently registered under
\* the id and the empty result for an id never registered; the map holds
\* exactly the ids ever registered.
C4_LookupReturnsLastRegistered ==
  /\ DOMAIN m_functions_by_uid = { reg_log[i].id : i \in 1..Len(reg_log) }
  /\ lookup.called => lookup.result = LastRegistered(reg_log, lookup.uid)

\* Two different functions were registered under one id, and it was looked up.
C4_Witness ==
  /\ lookup.called
  /\ \E i, j \in 1..Len(reg_log) :
       /\ i < j
       /\ reg_log[i].id = lookup.uid
       /\ reg_log[j].id = lookup.uid
       /\ reg_log[i] # reg_log[j]
  /\ lookup.result # NullFunction

\* C5 as stated: FindFunction returns the matching function of the smallest
\* id, and the empty result when no registered function matches.
C5_Original ==
  ff.called =>
    LET matching == DOMAIN m_functions_by_uid \cap ff.match
    IN IF matching = {} THEN ff.result = NullFunction
       ELSE ff.result = m_functions_by_uid[SetMin(matching)]

\* C5 amended: FindFunction returns the first match in the map's iteration
\* order, which is a registered function satisfying the predicate but not
\* necessarily the one of the smallest id; it returns the empty result when
\* no registered function matches or the module has no symbol file.
C5_FindReturnsFirstInMapOrder ==
  ff.called =>
    LET matching == DOMAIN m_functions_by_uid \cap ff.match
    IN IF matching = {} \/ ~hasSymFile THEN ff.result = NullFunction
       ELSE /\ ff.result.id \in matching
            /\ ff.result = m_functions_by_uid[ff.result.id]
            /\ \E k \in 1..Len(ff.order) :
                 /\ ff.order[k] = ff.result.id
                 /\ \A i \in 1..(k - 1) : ff.order[i] \notin ff.match

\* Two registered functions match and the one returned is not the smaller.
C5_Witness ==
  /\ ff.called
  /\ hasSymFile
  /\ Cardinality(DOMAIN m_functions_by_uid \cap ff.match) = 2
  /\ ff.result.id # SetMin(DOMAIN m_functions_by_uid \cap ff.match)

(***************************************************************************)
(* Claims about ResolveSymbolContext.                                      *)
(***************************************************************************)
\* What the call appended to the list it was given.
Returned == SubSeq(rs.sc_list, Len(rs.old) + 1, Len(rs.sc_list))

\* The call ran to its return with the unit's line table in hand.
SearchedTable == rs.called /\ ~rs.crashed /\ rs.table # NullTable

\* The rows of the searched table a query for (file indexes, line, column)
\* names, in table order, as 0-based row indexes.
NamedRows ==
  SelectSeq([i \in 1..Len(rs.table.entries) |-> i - 1],
            LAMBDA idx :
              LET row == rs.table.entries[idx + 1]
              IN /\ \E k \in 1..Len(rs.file_indexes) : rs.file_indexes[k] = row.file_idx
                 /\ row.line = rs.src_location_spec.line
                 /\ \/ rs.src_location_spec.column = InvalidColumn
                    \/ row.column = rs.src_location_spec.column)

\* The same without regard to the column.
RowsOfLine ==
  SelectSeq([i \in 1..Len(rs.table.entries) |-> i - 1],
            LAMBDA idx :
              LET row == rs.table.entries[idx + 1]
              IN /\ \E k \in 1..Len(rs.file_indexes) : rs.file_indexes[k] = row.file_idx
                 /\ row.line = rs.src_location_spec.line)

EntryOfRow(idx) == ConvertEntryAtIndexToLineEntry(m_support_files, rs.table, idx)

ExactQuery ==
  /\ SearchedTable
  /\ rs.file_spec_matches
  /\ rs.src_location_spec.exact
  /\ ~rs.src_location_spec.check_inlines

\* C6: a query whose file does not match the unit's primary file, with
\* check_inlines = false, appends nothing to the list, whatever the line, the
\* column, the exactness, the support files and the line table.
C6_NoMatchAppendsNothing ==
  (rs.called /\ ~rs.file_spec_matches /\ ~rs.src_location_spec.check_inlines)
    => /\ rs.sc_list = rs.old
       /\ rs.invoked = <<>>

\* Such a query for a header that is among the support files, at a line the
\* header has a row for.
C6_Witness ==
  /\ rs.called
  /\ ~rs.src_location_spec.check_inlines
  /\ rs.src_location_spec.file = HeaderFile
  /\ rs.old = << PriorContext >>
  /\ m_support_files = << PrimaryFile, HeaderFile >>
  /\ \E i \in 1..Len(m_line_table_up.entries) :
       /\ m_line_table_up.entries[i].file_idx = 1
       /\ m_line_table_up.entries[i].line = rs.src_location_spec.line

\* C7 as stated: for an exact query of a matching file and a line L, without
\* check_inlines, the returned contexts carry, one each and in table order, the
\* line entries of the rows of a matched file whose line is L.
C7_Original ==
  ExactQuery =>
    /\ Len(Returned) = Len(RowsOfLine)
    /\ \A i \in 1..Len(Returned) : Returned[i].line_entry = EntryOfRow(RowsOfLine[i])

\* C7: for an exact query of a matching file and a line L, without
\* check_inlines, one context is returned for every row of a matched file whose
\* line is L and, when the query has a column, whose column is the query's; the
\* contexts come in table order, none is returned for another row, and each
\* carries its row's line entry unless the resolve scope leaves the line entry
\* out and the row's address resolves to this unit.
C7_ExactRowsEachOnce ==
  ExactQuery =>
    /\ rs.exit = "scan"
    /\ Len(Returned) = Len(NamedRows)
    /\ Len(rs.scan) = Len(NamedRows)
    /\ \A i \in 1..Len(NamedRows) :
         /\ rs.scan[i].row = NamedRows[i]
         /\ Returned[i] = rs.scan[i].appended
         /\ Returned[i].comp_unit = "this"
         /\ Returned[i].line_entry =
              IF \/ eSymbolContextLineEntry \in rs.resolve_scope
                 \/ rs.scan[i].resolved_sc.comp_unit # "this"
              THEN EntryOfRow(NamedRows[i]) ELSE InvalidLineEntry

\* One row of line L is returned and the row of a larger line is not.
C7_Witness ==
  /\ ExactQuery
  /\ rs.old = << PriorContext >>
  /\ Len(rs.table.entries) = 2
  /\ Len(Returned) = 1
  /\ Returned[1].line_entry.line = rs.src_location_spec.line
  /\ rs.table.entries[1].file_idx = rs.table.entries[2].file_idx
  /\ rs.table.entries[2].line > rs.table.entries[1].line
  /\ rs.scan[1].row = 0

\* C8: when the inline call-site traversal appends a context the call returns
\* at once: the forward scan does not run and the contexts appended are the
\* traversal's, none of them with the line and column of the line entry found
\* nearby; the scan runs only when the traversal appended nothing or was not
\* entered.
C8_InlineFallbackReturnsFirst ==
  rs.called =>
    /\ AppendedBy(rs.examined) # <<>> =>
         /\ rs.exit = "inline"
         /\ rs.scan = <<>>
         /\ Returned = AppendedBy(rs.examined)
         /\ \A i \in 1..Len(Returned) :
              \/ Returned[i].line_entry.line # rs.line_entry.line
              \/ Returned[i].line_entry.column # rs.line_entry.column
    /\ rs.exit = "scan" => (~rs.fallback \/ AppendedBy(rs.examined) = <<>>)

\* The traversal found a call site while the line table had a row nearby.
C8_Witness ==
  /\ rs.called
  /\ rs.exit = "inline"
  /\ rs.old = << PriorContext >>
  /\ rs.line_idx # NotFound
  /\ rs.line_entry.line > rs.src_location_spec.line
  /\ Len(Returned) >= 1

\* The steps of the traversal that appended a context.
Synthesized == { i \in 1..Len(rs.examined) : rs.examined[i].appended }

SynthesizedIdentity(i) ==
  LET step == rs.examined[i]
      call_site == func.blocks[step.block].call_site
  IN /\ step.context.function = step.sc.function
     /\ step.context.block = step.sc.block
     /\ step.context.comp_unit = step.sc.comp_unit
     /\ step.context.line_entry.file = step.sc.line_entry.file
     /\ step.context.line_entry.line = call_site.line
     /\ step.context.line_entry.column = call_site.column

\* C9 as stated: the synthesized context keeps the address range of the
\* context resolved at the parent block's start address.
C9_Original ==
  rs.called =>
    \A i \in Synthesized :
      /\ SynthesizedIdentity(i)
      /\ rs.examined[i].context.line_entry.range = rs.examined[i].sc.line_entry.range

\* C9: every context synthesized by the inline call-site fallback has the
\* function and block of the context resolved at the parent block's start
\* address, the line and column of the call site, and as its address range the
\* first address range of the inlined block.
C9_CallSiteContextHasInlinedRange ==
  rs.called =>
    \A i \in Synthesized :
      /\ SynthesizedIdentity(i)
      /\ rs.examined[i].context.line_entry.range = BlockRange(rs.examined[i].block)

\* A context synthesized from a resolution that gave a block and a line entry
\* with a range of its own.
C9_Witness ==
  /\ rs.called
  /\ rs.exit = "inline"
  /\ \E i \in Synthesized :
       /\ rs.examined[i].sc.comp_unit = "this"
       /\ rs.examined[i].sc.block # NoBlock
       /\ rs.examined[i].sc.line_entry.range # NoRange
       /\ rs.examined[i].sc.line_entry.line # rs.examined[i].context.line_entry.line

\* C10: in the forward scan with a scope wider than the line entry, a row
\* whose address resolves to another unit or to none gets the bare context
\* (module, this unit, the row's line entry) with no function, block or symbol;
\* the resolved context is appended only when its unit is this unit.
C10_ConsistencyGuard ==
  (rs.called /\ rs.resolve_scope # {eSymbolContextLineEntry}) =>
    \A i \in 1..Len(rs.scan) :
      LET step == rs.scan[i]
          bare == [UnitContext EXCEPT !.line_entry = EntryOfRow(step.row)]
      IN /\ Returned[Len(AppendedBy(rs.examined)) + i] = step.appended
         /\ step.resolved_sc.comp_unit # "this" => step.appended = bare
         /\ step.resolved_sc.comp_unit = "this" => step.appended = step.resolved_sc

\* A row whose address resolves to a function of another unit.
C10_Witness ==
  /\ rs.called
  /\ rs.old = << PriorContext >>
  /\ \E i \in 1..Len(rs.scan) :
       /\ rs.scan[i].resolved_sc.comp_unit = "other"
       /\ rs.scan[i].resolved_sc.function # "none"
       /\ rs.scan[i].appended.function = "none"
       /\ Returned[i].line_entry = EntryOfRow(rs.scan[i].row)

\* The rows the forward scan is anchored to: from the row found first on, the
\* rows of a matched file with the found row's line and, when the query has a
\* column and the found row has one (a column of 0 is no column), the found
\* row's column; as 0-based row indexes in table order.
AnchoredRows ==
  IF rs.line_idx = NotFound THEN <<>>
  ELSE SelectSeq([i \in 1..Len(rs.table.entries) |-> i - 1],
                 LAMBDA idx :
                   LET row == rs.table.entries[idx + 1]
                       anchor == rs.table.entries[rs.line_idx + 1]
                   IN /\ idx >= rs.line_idx
                      /\ \E k \in 1..Len(rs.file_indexes) : rs.file_indexes[k] = row.file_idx
                      /\ row.line = anchor.line
                      /\ \/ rs.src_location_spec.column = InvalidColumn
                         \/ anchor.column = InvalidColumn
                         \/ row.column = anchor.column)

\* C11: a diagnostic is reported exactly for the scanned rows whose address
\* resolves to a context with a module and no compile unit; none when the
\* context names this unit or another unit, has no module, or when the scope
\* is the line entry alone; with a diagnostic the bare context is still
\* appended and the scan goes on to the remaining anchored rows.
C11_DiagnosticOnlyWithoutUnit ==
  (rs.called /\ rs.exit = "scan") =>
    /\ \A i \in 1..Len(rs.scan) :
         LET step == rs.scan[i]
         IN /\ step.reported <=>
                 /\ rs.resolve_scope # {eSymbolContextLineEntry}
                 /\ step.resolved_sc.comp_unit = "none"
                 /\ step.resolved_sc.module
            /\ step.reported =>
                 /\ step.appended = [UnitContext EXCEPT !.line_entry = EntryOfRow(step.row)]
                 /\ Returned[Len(AppendedBy(rs.examined)) + i] = step.appended
    /\ (\E i \in 1..Len(rs.scan) : rs.scan[i].reported) =>
         [i \in 1..Len(rs.scan) |-> rs.scan[i].row] = AnchoredRows

\* A diagnostic for the first of two anchored rows, and none for the second,
\* which resolves to another unit.
C11_Witness ==
  /\ rs.called
  /\ rs.exit = "scan"
  /\ Len(rs.scan) = 2
  /\ rs.scan[1].reported
  /\ ~rs.scan[2].reported
  /\ rs.scan[2].resolved_sc.comp_unit = "other"
  /\ Len(Returned) = 2

\* C12: a query without a line appends the unit's own context (module, this
\* unit, no line entry) when its file matches the primary file and
\* check_inlines is false, and nothing otherwise; either way the call asks the
\* backend for nothing and leaves the line table, the support files and their
\* requested flags as they were.
C12_NoLineUnitLevelOnly ==
  [][ (rs'.called /\ rs'.src_location_spec.line = InvalidLine) =>
        /\ SubSeq(rs'.sc_list, Len(rs'.old) + 1, Len(rs'.sc_list)) =
             IF rs'.file_spec_matches /\ ~rs'.src_location_spec.check_inlines
             THEN << SymbolContext(TRUE, "this", "none", NoBlock, InvalidLineEntry, FALSE) >>
             ELSE <<>>
        /\ SubSeq(rs'.sc_list, 1, Len(rs'.old)) = rs'.old
        /\ rs'.invoked = <<>>
        /\ calls' = calls
        /\ m_flags' = m_flags
        /\ m_line_table_up' = m_line_table_up
        /\ m_support_files' = m_support_files ]_vars

\* A query without a line for the primary file, not seeking inlines, on a
\* unit that has asked for neither its support files nor its line table yet.
C12_Witness ==
  /\ rs.called
  /\ rs.src_location_spec.line = InvalidLine
  /\ rs.file_spec_matches
  /\ ~rs.src_location_spec.check_inlines
  /\ rs.old = << PriorContext >>
  /\ Len(rs.sc_list) = 2
  /\ m_flags = {}
  /\ m_support_files = <<>>

(***************************************************************************)
(* Claims about the variable list.                                         *)
(***************************************************************************)
\* C13 as stated: GetVariableList(false) never invokes the backend;
\* GetVariableList(true) invokes ParseVariablesForContext (once) on every
\* call made while no variable list is cached; with a list cached the call
\* returns that list without invoking the backend.
C13_Original ==
  gv.called =>
    /\ ~gv.can_create => gv.invoked = 0
    /\ (gv.can_create /\ gv.before = NullVariableList) => (gv.invoked = 1 /\ ~gv.crashed)
    /\ gv.before # NullVariableList => (gv.invoked = 0 /\ gv.result = gv.before)

(***************************************************************************)
(* Claims about the optimization state.                                    *)
(***************************************************************************)
\* C14: once GetIsOptimized has been called the stored state is never
\* eLazyBoolCalculate again and never changes, so every later call returns
\* what the first returned; the call that resolves it stores eLazyBoolYes only
\* when ParseIsOptimized answered true, and eLazyBoolNo when it answered false
\* or there is no symbol file; a unit constructed with yes or no never invokes
\* the backend.
C14_OptimizedResolvedOnce ==
  [][ /\ opt'.called =>
           /\ m_is_optimized' # eLazyBoolCalculate
           /\ opt'.result = m_is_optimized'
      /\ opt.called => m_is_optimized' = m_is_optimized
      /\ m_is_optimized # eLazyBoolCalculate =>
           /\ m_is_optimized' = m_is_optimized
           /\ calls'["ParseIsOptimized"] = calls["ParseIsOptimized"]
      /\ (opt'.called /\ opt' # opt /\ opt'.before = eLazyBoolCalculate) =>
           /\ opt'.invoked = (IF hasSymFile THEN 1 ELSE 0)
           /\ opt'.result = eLazyBoolYes <=> (opt'.invoked = 1 /\ opt'.answer)
           /\ opt'.result = eLazyBoolNo <=> (opt'.invoked = 0 \/ ~opt'.answer)
    ]_vars

\* Two calls: the first resolved the state to yes through the backend, the
\* second returned it without asking.
C14_Witness ==
  /\ opt.called
  /\ opt.before = eLazyBoolYes
  /\ opt.invoked = 0
  /\ opt.result = eLazyBoolYes
  /\ calls["ParseIsOptimized"] = 1


(***************************************************************************)
(* Claims about the function search.                                       *)
(***************************************************************************)
FindFunctionStep == ff'.called /\ (ff' # ff \/ calls' # calls)

\* C15: every FindFunction call on a unit with a symbol file invokes
\* ParseFunctions once more, whatever was invoked before, and the predicate is
\* evaluated only on the map as it is after that invocation, the functions the
\* invocation registered included; without a symbol file the call returns no
\* function, evaluates the predicate on nothing and invokes nothing.
C15_FindFunctionParsesFirst ==
  [][ FindFunctionStep =>
        IF hasSymFile
        THEN /\ calls'["ParseFunctions"] = calls["ParseFunctions"] + 1
             /\ \A i \in 1..Len(ff'.parsed) :
                  /\ ff'.parsed[i].id \in DOMAIN m_functions_by_uid'
                  /\ m_functions_by_uid'[ff'.parsed[i].id] = ff'.parsed[i]
                  /\ \E k \in 1..Len(ff'.order) : ff'.order[k] = ff'.parsed[i].id
             /\ { ff'.order[k] : k \in 1..Len(ff'.order) } = DOMAIN m_functions_by_uid'
             /\ \A k \in 1..Len(ff'.evaluated) :
                  ff'.evaluated[k] \in DOMAIN m_functions_by_uid'
             /\ (ff'.match \cap DOMAIN m_functions_by_uid' # {}) =>
                  ff'.result # NullFunction
        ELSE /\ calls' = calls
             /\ ff'.evaluated = <<>>
             /\ ff'.result = NullFunction
    ]_vars

\* The second FindFunction call in a row: ParseFunctions was invoked for both,
\* and the function the second invocation registered is the one returned.
C15_Witness ==
  /\ ff.called
  /\ hasSymFile
  /\ calls["ParseFunctions"] = 2
  /\ Len(ff.parsed) = 1
  /\ reg_log = ff.parsed
  /\ ff.result = ff.parsed[1]


(***************************************************************************)
(* Claims about the inline call-site fallback.                             *)
(***************************************************************************)
\* The four conditions of the fallback, read from the finished call.
FallbackConditions ==
  /\ IsValid(rs.line_entry)
  /\ \/ rs.line_entry.line # rs.src_location_spec.line
     \/ /\ rs.src_location_spec.column # InvalidColumn
        /\ rs.line_entry.column # rs.src_location_spec.column
  /\ eSymbolContextLineEntry \in rs.resolve_scope
  /\ rs.src_location_spec.check_inlines

\* C16: a call that searched the line table examines blocks of the function
\* only when the primary search found a valid entry, the entry's line differs
\* from the query's or the query has a column and the entry's differs from
\* it, resolve_scope includes the line entry and check_inlines is set; when
\* one of them fails no block is examined and the call ends in the forward
\* scan of the line table.
C16_FallbackGuard ==
  SearchedTable =>
    /\ rs.fallback <=> FallbackConditions
    /\ rs.examined # <<>> => FallbackConditions
    /\ ~FallbackConditions => (rs.examined = <<>> /\ rs.exit = "scan")

\* A query without a column whose line the primary search matched exactly, on
\* a function with inlined blocks: nothing examined, the forward scan appended.
C16_Witness ==
  /\ SearchedTable
  /\ func.exists
  /\ Len(func.blocks) > 0
  /\ rs.src_location_spec.check_inlines
  /\ eSymbolContextLineEntry \in rs.resolve_scope
  /\ rs.src_location_spec.column = InvalidColumn
  /\ IsValid(rs.line_entry)
  /\ rs.line_entry.line = rs.src_location_spec.line
  /\ rs.examined = <<>>
  /\ rs.exit = "scan"
  /\ Len(rs.sc_list) > Len(rs.old)


\* Block b lies inside block a of the function.
RECURSIVE NestedIn(_, _, _)
NestedIn(function, b, a) ==
  /\ b # 0
  /\ \/ function.blocks[b].parent = a
     \/ NestedIn(function, function.blocks[b].parent, a)

\* The blocks the fallback appended a context for, in the order appended.
AppendedBlocks ==
  LET hits == SelectSeq(rs.examined, LAMBDA e : e.appended)
  IN [i \in 1..Len(hits) |-> hits[i].block]

\* The block on the path from `parent` down to b that is a child of `parent`.
BranchOf(function, b, parent) ==
  CHOOSE a \in 1..Len(function.blocks) :
    /\ function.blocks[a].parent = parent
    /\ a = b \/ NestedIn(function, b, a)

\* C17 as stated: the matching blocks that are siblings at one level are all
\* appended before any matching block nested inside one of them, and the
\* top-level block is never tested.
C17_Original ==
  (rs.called /\ rs.exit = "inline") =>
    /\ \A i \in 1..Len(rs.examined) : rs.examined[i].block # 0
    /\ \A i, j \in 1..Len(AppendedBlocks) :
         (\E a \in 1..Len(func.blocks) :
            /\ NestedIn(func, AppendedBlocks[j], a)
            /\ func.blocks[a].parent = func.blocks[AppendedBlocks[i]].parent)
           => i < j

\* C17: the fallback tests every block of the function but the top-level one
\* exactly once and appends in depth-first pre-order: a matching block comes
\* before every matching block nested inside it, and a block with everything
\* nested inside it comes before its later siblings and what is nested in them.
C17_AppendsInPreOrder ==
  (rs.called /\ rs.fallback /\ func.exists /\ rs.exit \in {"inline", "scan"}) =>
    /\ \A i \in 1..Len(rs.examined) : rs.examined[i].block # 0
    /\ \A b \in 1..Len(func.blocks) :
         Cardinality({ i \in 1..Len(rs.examined) : rs.examined[i].block = b }) = 1
    /\ \A i, j \in 1..Len(AppendedBlocks) :
         LET x == AppendedBlocks[i]
             y == AppendedBlocks[j]
         IN i < j <=>
              \/ NestedIn(func, y, x)
              \/ \E parent \in 0..Len(func.blocks) :
                   /\ parent = 0 \/ (NestedIn(func, x, parent) /\ NestedIn(func, y, parent))
                   /\ BranchOf(func, x, parent) < BranchOf(func, y, parent)

\* Three matching blocks: the first, one nested inside it, and a later sibling
\* of the first, appended in that order.
C17_Witness ==
  /\ rs.called
  /\ rs.exit = "inline"
  /\ Len(func.blocks) = 3
  /\ func.blocks[2].parent = 1
  /\ func.blocks[3].parent = 0
  /\ AppendedBlocks = << 1, 2, 3 >>


\* Whether the call site of block b is the one the examine_block call sought,
\* with the start address of its parent and its own first range obtainable.
CallSiteObtainable(b) ==
  LET block == func.blocks[b]
  IN /\ block.inlined
     /\ FileAndLineEqual(block.call_site,
                         Declaration(eb.src_location_spec.file, eb.src_location_spec.line,
                                     eb.src_location_spec.column))
     /\ \/ eb.src_location_spec.column = InvalidColumn
        \/ eb.src_location_spec.column = block.call_site.column
     /\ HasStartAddress(func, block.parent)
     /\ block.has_range

\* C18: for an exact query examine_block appends a call-site context only when
\* the file, the line and the column of its line entry equal the query's; for
\* a query that is not exact it appends one for every inlined block whose
\* call site matches the query's file and line (and column, when the query
\* has one) and whose parent's start address and own first range exist, and
\* for no other block.
C18_ExactCallSiteMatching ==
  eb.called =>
    \A i \in 1..Len(eb.examined) :
      LET e == eb.examined[i]
      IN /\ e.appended => CallSiteObtainable(e.block)
         /\ IF eb.src_location_spec.exact
            THEN e.appended =>
                   /\ e.context.line_entry.file = eb.src_location_spec.file
                   /\ e.context.line_entry.line = eb.src_location_spec.line
                   /\ e.context.line_entry.column = eb.src_location_spec.column
            ELSE CallSiteObtainable(e.block) => e.appended

\* An exact query accepted the call site of one block and not that of another
\* block inlined at the same file and line with another column, though both
\* of its addresses exist.
C18_Witness ==
  /\ eb.called
  /\ eb.src_location_spec.exact
  /\ \E i, j \in 1..Len(eb.examined) :
       /\ eb.examined[i].appended
       /\ ~eb.examined[j].appended
       /\ func.blocks[eb.examined[j].block].inlined
       /\ func.blocks[eb.examined[j].block].call_site.column # eb.src_location_spec.column
       /\ HasStartAddress(func, func.blocks[eb.examined[j].block].parent)
       /\ func.blocks[eb.examined[j].block].has_range


(***************************************************************************)
(* Claims about the forward scan and the forced load.                      *)
(***************************************************************************)
\* C19 as stated: every row the forward scan appended a context for has a
\* line entry with the file and the line of the entry found first, and its
\* column when the query has a column.
C19_Original ==
  (rs.called /\ rs.exit = "scan") =>
    \A i \in 1..Len(rs.scan) :
      LET scanned == rs.scan[i].sc.line_entry
      IN /\ scanned.file = rs.line_entry.file
         /\ scanned.line = rs.line_entry.line
         /\ rs.src_location_spec.column # InvalidColumn =>
              scanned.column = rs.line_entry.column

\* C19: the rows the forward scan appends a context for are, from the row
\* found first on, exactly the rows of a compatible support file that have
\* the found row's line and, when the query has a column and the found row's
\* column is not 0, the found row's column; rows of other lines are never
\* among them, whatever the query's line.  The context appended for a row
\* carries that row's line entry, or none when address resolution names this
\* unit and resolve_scope leaves the line entry out.
C19_ScanAnchoredToFoundRow ==
  (rs.called /\ rs.exit = "scan") =>
    /\ [i \in 1..Len(rs.scan) |-> rs.scan[i].row] = AnchoredRows
    /\ \A i \in 1..Len(rs.scan) :
         LET appended == rs.scan[i].appended.line_entry
             row == rs.table.entries[rs.scan[i].row + 1]
         IN /\ row.line = rs.line_entry.line
            /\ \/ appended = EntryOfRow(rs.scan[i].row)
               \/ /\ appended = InvalidLineEntry
                  /\ eSymbolContextLineEntry \notin rs.resolve_scope
                  /\ rs.scan[i].resolved_sc.comp_unit = "this"
            /\ IsValid(appended) =>
                 /\ appended.line = rs.line_entry.line
                 /\ \E k \in 1..Len(rs.file_indexes) :
                      rs.file_indexes[k] = row.file_idx

\* A query that is not exact, for a line smaller than the line found: of two
\* rows of compatible files the scan appended for the found row only, the
\* other row having another line.
C19_Witness ==
  /\ rs.called
  /\ rs.exit = "scan"
  /\ ~rs.src_location_spec.exact
  /\ rs.line_entry.line > rs.src_location_spec.line
  /\ Len(rs.table.entries) = 2
  /\ \A i \in 1..2 : \E k \in 1..Len(rs.file_indexes) :
       rs.file_indexes[k] = rs.table.entries[i].file_idx
  /\ rs.table.entries[1].line # rs.table.entries[2].line
  /\ Len(rs.scan) = 1
  /\ IsValid(rs.scan[1].appended.line_entry)


\* Where in the backend calls of the finished call `fn` was invoked.
InvokedAt(fn) == { i \in 1..Len(rs.invoked) : rs.invoked[i] = fn }

\* C20 as stated: a ResolveSymbolContext call issues SetLoadDebugInfoEnabled
\* exactly when it passed the file-match test, the query has a line and some
\* support file is compatible with the query's file; then it issues it once,
\* before any ParseLineTable of the call, and the early returns issue none.
C20_Original ==
  rs.called =>
    LET loads == InvokedAt("SetLoadDebugInfoEnabled")
        passed == /\ ~NothingToFind(rs.file_spec_matches, rs.src_location_spec.check_inlines)
                  /\ rs.src_location_spec.line # InvalidLine
                  /\ Len(rs.file_indexes) > 0
    IN /\ Cardinality(loads) = (IF passed THEN 1 ELSE 0)
       /\ \A i \in loads, j \in InvokedAt("ParseLineTable") : i < j
       /\ rs.exit \in {"no_match", "no_line", "no_files"} => loads = {}


(***************************************************************************)
(* Claims about the loop of the forward scan.                              *)
(***************************************************************************)
\* The rows from the row found first on that match found_entry: a compatible
\* support file, found_entry's line and, when it has one, its column; as
\* 0-based row indexes in table order.
MatchingFoundEntry ==
  IF wl.first = NotFound THEN <<>>
  ELSE SelectSeq([i \in 1..Len(m_line_table_up.entries) |-> i - 1],
                 LAMBDA idx :
                   LET row == m_line_table_up.entries[idx + 1]
                   IN /\ idx >= wl.first
                      /\ \E k \in 1..Len(wl.file_indexes) : wl.file_indexes[k] = row.file_idx
                      /\ row.line = wl.found_entry.line
                      /\ \/ wl.found_entry.column = InvalidColumn
                         \/ row.column = wl.found_entry.column)

\* C21: the loop of the forward scan ends for every line table; an iteration
\* appends one context, for the current row, and leaves the index larger or
\* not found; when the loop has ended the contexts appended are as many as
\* the rows from the first found row on that match found_entry, one for each
\* in ascending row order, and none when the primary search found no row.
C21_ScanTerminates ==
  /\ (wl.phase = "loop") ~> (wl.phase = "done")
  /\ [][ (wl.phase = "loop" /\ wl'.phase = "loop") =>
           /\ Len(wl'.sc_list) = Len(wl.sc_list) + 1
           /\ wl'.rows = Append(wl.rows, wl.line_idx)
           /\ wl.line_idx < Len(m_line_table_up.entries)
           /\ wl'.line_idx = NotFound \/ wl'.line_idx > wl.line_idx
     ]_vars
  /\ [](wl.phase = "done" =>
          /\ wl.rows = MatchingFoundEntry
          /\ Len(wl.sc_list) = Len(MatchingFoundEntry)
          /\ \A i \in 1..Len(wl.sc_list) :
               \/ wl.sc_list[i].line_entry
                    = ConvertEntryAtIndexToLineEntry(m_support_files, m_line_table_up,
                                                     wl.rows[i])
               \/ eSymbolContextLineEntry \notin wl.resolve_scope
          /\ wl.first = NotFound => wl.sc_list = <<>>)

\* The loop ended after two iterations, for a query that is not exact and
\* whose line is smaller than the line found.
C21_Witness ==
  /\ wl.phase = "done"
  /\ wl.rows = << 0, 1 >>
  /\ Len(wl.sc_list) = 2
  /\ ~wl.src_location_spec.exact
  /\ wl.found_entry.line > wl.src_location_spec.line


(***************************************************************************)
(* Claims about the line table and its flag.                               *)
(***************************************************************************)
\* C22: whatever the order of GetLineTable, SetLineTable(table),
\* SetLineTable(null) and the backend's answers to ParseLineTable, a unit
\* that holds a line table has flagsParsedLineTable set; while it holds one no
\* step invokes ParseLineTable, and GetLineTable leaves the table, the one
\* SetLineTable stored last, as it is and returns it.
C22_TableImpliesRequested ==
  /\ [](m_line_table_up # NullTable => flagsParsedLineTable \in m_flags)
  /\ [][ m_line_table_up # NullTable =>
           /\ calls'["ParseLineTable"] = calls["ParseLineTable"]
           /\ lt_gets' = lt_gets + 1 =>
                (m_line_table_up' = m_line_table_up /\ m_flags' = m_flags)
     ]_vars
  /\ [][ (m_line_table_up' # m_line_table_up /\ m_line_table_up' # NullTable) =>
           flagsParsedLineTable \in m_flags'
     ]_vars

\* SetLineTable stored a table and GetLineTable was called after it: the
\* backend was never asked for the line table.
C22_Witness ==
  /\ m_line_table_up # NullTable
  /\ hasSymFile
  /\ setter_used
  /\ lt_gets = 1
  /\ lt_parses = 0
  /\ calls["ParseLineTable"] = 0

====
